---- MODULE Spec2Model ----
(***************************************************************************)
(* Y.PaginatorModel and Y.PaginatorView                                    *)
(* (gallery-paginator-view/js/paginator-view.js): the pagination state     *)
(* held in the model's attributes totalItems, itemsPerPage, page and       *)
(* lastPage and in the property _npages, driven by attribute sets, and the *)
(* view bound to the model: the content of its container and its handlers  *)
(* of clicks, of the page input box and of the rows-per-page control.      *)
(*                                                                         *)
(* A JavaScript value is a record [t, v]: t is the kind of value and v the *)
(* number it carries (0 when the kind carries none).                       *)
(*   "num"    a finite number v                                            *)
(*   "null"   null (also stands for an attribute left unset)               *)
(*   "nan"    NaN                                                          *)
(*   "str"    a string that is not a numeral: "abc" (v = 0) or the v-th    *)
(*            word of WordText                                             *)
(*   "numstr" a string that is the numeral of v, such as "2"               *)
(***************************************************************************)
EXTENDS Integers, FiniteSets, Sequences, TLC

VARIABLES totalItems, itemsPerPage, page, lastPage, _npages, _subscr, call,
          stored, view, pending

vars == <<totalItems, itemsPerPage, page, lastPage, _npages, _subscr, call,
          stored, view, pending>>

(* ---------------------------------------------------------------- bounds *)
MaxSize == 3
MaxPageArg == 4
\* the items of the model a view is bound to, and the maxPageLinks of a
\* view that abbreviates its list of page links
ViewItems == 5
ShortList == 3
MaxCalls == 4
MaxLoopCalls == 3

(* ------------------------------------------------------------ JS values *)
Num(n) == [t |-> "num", v |-> n]
Null == [t |-> "null", v |-> 0]
NaN == [t |-> "nan", v |-> 0]
Str == [t |-> "str", v |-> 0]
NumStr(n) == [t |-> "numstr", v |-> n]

\* Y.Lang.isNumber: typeof o === 'number' && isFinite(o)
isNumber(x) == x.t = "num"

\* ToNumber yields NaN
IsNaN(x) == x.t \in {"nan", "str"}

\* ToBoolean
Truthy(x) ==
    CASE x.t = "num" -> x.v # 0
      [] x.t = "null" -> FALSE
      [] x.t = "nan" -> FALSE
      [] x.t = "str" -> TRUE
      [] x.t = "numstr" -> TRUE

\* a < b and a > b where at least one side is a number: both sides are
\* converted with ToNumber and any comparison with NaN is false
Lt(a, b) == ~IsNaN(a) /\ ~IsNaN(b) /\ a.v < b.v
Gt(a, b) == ~IsNaN(a) /\ ~IsNaN(b) /\ a.v > b.v

\* a === b
StrictEq(a, b) == a.t # "nan" /\ a = b

(* ------------------------------------------------------- the model state *)
\* The attributes and properties of one PaginatorModel as a record.
State(ti, ipp, pg, lp, np, sub) ==
    [totalItems |-> ti, itemsPerPage |-> ipp, page |-> pg, lastPage |-> lp,
     npages |-> np, subscr |-> sub]

\* getter of the attribute totalPages
totalPages(s) == s.npages

\* the listeners initializer pushes on _subscr
Listeners == {"totalItemsChange", "itemsPerPageChange", "pageChange"}

\* ATTRS.lastPage: set('lastPage', v) stores v when the validator accepts it
setLastPage(s, v) ==
    IF isNumber(v) THEN [s EXCEPT !.lastPage = v] ELSE s

\* variants of validp: without the upper bound, without the lower bound,
\* without the test that paging is enabled
validp_noUpper(s, newPg) ==
    ~(Lt(newPg, Num(1)) \/ ~Truthy(totalPages(s)) \/ ~Truthy(s.itemsPerPage))

validp_noLower(s, newPg) ==
    /\ ~(~Truthy(totalPages(s)) \/ ~Truthy(s.itemsPerPage))
    /\ ~(Truthy(totalPages(s)) /\ Gt(newPg, totalPages(s)))

validp_noEnabled(s, newPg) ==
    /\ ~Lt(newPg, Num(1))
    /\ ~(Truthy(totalPages(s)) /\ Gt(newPg, totalPages(s)))

\* _changePage, the "on" listener of pageChange: TRUE when the change is
\* left to proceed, FALSE when e.preventDefault() is called
validp(s, newPg) ==
    /\ ~(Lt(newPg, Num(1)) \/ ~Truthy(totalPages(s)) \/ ~Truthy(s.itemsPerPage))
    /\ ~(Truthy(totalPages(s)) /\ Gt(newPg, totalPages(s)))

\* variant of _changePage: lastPage takes e.newVal
_changePage_newVal(s, newPg) ==
    IF validp(s, newPg) THEN setLastPage(s, newPg) ELSE s

_changePage(s, newPg) ==
    IF validp(s, newPg) THEN setLastPage(s, s.page) ELSE s

\* ATTRS.page: the default function of pageChange stores a value the
\* validator accepts
storePage(s, v) ==
    IF isNumber(v) THEN [s EXCEPT !.page = v] ELSE s

\* variant of setPage: the listener validates but does not record lastPage
setPage_noLastPage(s, v) ==
    IF "pageChange" \in s.subscr
    THEN IF validp(s, v) THEN storePage(s, v) ELSE s
    ELSE storePage(s, v)

\* set('page', v): the "on" listener runs first (while it is attached), then
\* the default function unless the listener prevented it
setPage(s, v) ==
    IF "pageChange" \in s.subscr
    THEN IF validp(s, v) THEN storePage(_changePage(s, v), v) ELSE s
    ELSE storePage(s, v)

\* variant of pageChangeNotes: the observer is told in the "on" phase, after
\* _changePage and before the value is stored
pageChangeNotes_onPhase(s, v) ==
    IF setPage(s, v).page # s.page
    THEN <<[prevVal |-> s.page, newVal |-> v, seen |-> _changePage(s, v)]>>
    ELSE <<>>

\* the notifications set('page', v) delivers to an observer subscribed with
\* after('pageChange'), as the view is: none when the change was prevented,
\* refused by the validator or left the value as it was, else one, carrying
\* e.prevVal, e.newVal and the state of the model the observer sees
pageChangeNotes(s, v) ==
    IF setPage(s, v).page # s.page
    THEN <<[prevVal |-> s.page, newVal |-> v, seen |-> setPage(s, v)]>>
    ELSE <<>>

\* an observer of pageChange that calls set('page', m) from inside the
\* notification of set('page', n): the nested set runs to its end before the
\* outer one returns
setPageNested(s, n, m) ==
    IF pageChangeNotes(s, n) # <<>>
    THEN setPage(setPage(s, n), m)
    ELSE setPage(s, n)

\* variant of _getItemIndexStart: page taken as zero-based
_getItemIndexStart_zeroBased(s) == Num(s.page.v * s.itemsPerPage.v)

\* getter of itemIndexStart
_getItemIndexStart(s) == Num((s.page.v - 1) * s.itemsPerPage.v)

\* variant of _getItemIndexEnd: no clamp to totalItems
_getItemIndexEnd_noClamp(s) ==
    Num(_getItemIndexStart(s).v + s.itemsPerPage.v)

\* getter of itemIndexEnd
_getItemIndexEnd(s) ==
    LET ni == s.totalItems
        iend == Num(_getItemIndexStart(s).v + s.itemsPerPage.v)
    IN  IF Gt(iend, ni) THEN ni ELSE iend

\* variant of calcPages: the remainder is dropped
calcPages_floor(ni, nipp) == ni \div nipp

\* the page count _recalcPagnParams computes for ni items at nipp per page
calcPages(ni, nipp) ==
    (ni \div nipp) + (IF ni % nipp > 0 THEN 1 ELSE 0)

\* the condition under which _recalcPagnParams recalculates
canRecalc(ni, nipp) ==
    Truthy(ni) /\ Truthy(nipp) /\ Gt(ni, Num(0)) /\ Gt(nipp, Num(0))

\* variant of _recalcPagnParams: page is written directly, not through set
_recalcPagnParams_direct(s) ==
    IF canRecalc(s.totalItems, s.itemsPerPage)
    THEN [s EXCEPT !.npages =
                       Num(calcPages(s.totalItems.v, s.itemsPerPage.v)),
                   !.page = Num(1)]
    ELSE s

_recalcPagnParams(s) ==
    IF canRecalc(s.totalItems, s.itemsPerPage)
    THEN setPage([s EXCEPT !.npages =
                        Num(calcPages(s.totalItems.v, s.itemsPerPage.v))],
                 Num(1))
    ELSE s

\* set('totalItems', v): the validator, the store of a changed value, then
\* the "after" listener while it is attached
setTotalItems(s, v) ==
    IF isNumber(v) /\ ~StrictEq(v, s.totalItems)
    THEN LET s1 == [s EXCEPT !.totalItems = v]
         IN  IF "totalItemsChange" \in s.subscr
             THEN _recalcPagnParams(s1) ELSE s1
    ELSE s

\* set('itemsPerPage', v)
setItemsPerPage(s, v) ==
    IF isNumber(v) /\ ~StrictEq(v, s.itemsPerPage)
    THEN LET s1 == [s EXCEPT !.itemsPerPage = v]
         IN  IF "itemsPerPageChange" \in s.subscr
             THEN _recalcPagnParams(s1) ELSE s1
    ELSE s

\* the pageChange notifications an after-observer receives from
\* _recalcPagnParams
recalcNotes(s) ==
    IF canRecalc(s.totalItems, s.itemsPerPage)
    THEN pageChangeNotes([s EXCEPT !.npages =
                        Num(calcPages(s.totalItems.v, s.itemsPerPage.v))],
                         Num(1))
    ELSE <<>>

\* the pageChange notifications of set('totalItems', v)
setTotalItemsNotes(s, v) ==
    IF isNumber(v) /\ ~StrictEq(v, s.totalItems)
          /\ "totalItemsChange" \in s.subscr
    THEN recalcNotes([s EXCEPT !.totalItems = v])
    ELSE <<>>

\* the pageChange notifications of set('itemsPerPage', v)
setItemsPerPageNotes(s, v) ==
    IF isNumber(v) /\ ~StrictEq(v, s.itemsPerPage)
          /\ "itemsPerPageChange" \in s.subscr
    THEN recalcNotes([s EXCEPT !.itemsPerPage = v])
    ELSE <<>>

\* a configuration value that fails the validator leaves the default
initValue(v, default) == IF isNumber(v) THEN v ELSE default

\* new Y.PaginatorModel({totalItems: ti, itemsPerPage: ipp}): the attributes
\* take their initial values, initializer recalculates before any listener
\* is attached and then attaches the three listeners
\* variant of initializer: the listeners are attached before the first
\* recalculation
initializer_listenFirst(ti, ipp) ==
    _recalcPagnParams(State(initValue(ti, Null), initValue(ipp, Null),
                            Num(1), Null, Null, Listeners))

initializer(ti, ipp) ==
    LET s0 == State(initValue(ti, Null), initValue(ipp, Null), Num(1), Null,
                    Null, {})
    IN  [_recalcPagnParams(s0) EXCEPT !.subscr = Listeners]

\* variant of destructor: the sizing listeners stay attached
destructor_partial(s) ==
    [s EXCEPT !.subscr = s.subscr \ {"pageChange"}]

\* destructor detaches every listener
destructor(s) == [s EXCEPT !.subscr = {}]

(* -------------------------------------------- the derived attributes *)
\* ATTRS.totalPages, ATTRS.itemIndexStart and ATTRS.itemIndexEnd each have a
\* validator (Y.Lang.isNumber) and a getter and no setter: a set stores the
\* value in the attribute's own slot, which the getter never reads.
Derived == {"totalPages", "itemIndexStart", "itemIndexEnd"}

\* the slots after construction: nothing stored
NoStored == [a \in Derived |-> Null]

\* a model together with the slots of its derived attributes
Attrs(m, st) == [m |-> m, stored |-> st]

\* variant of setDerived: a set of totalPages writes through to _npages
setDerived_writeThrough(a, name, v) ==
    IF isNumber(v) /\ ~StrictEq(v, a.stored[name])
    THEN Attrs(IF name = "totalPages" THEN [a.m EXCEPT !.npages = v]
               ELSE a.m,
               [a.stored EXCEPT ![name] = v])
    ELSE a

\* set(name, v) on a derived attribute
setDerived(a, name, v) ==
    IF isNumber(v) /\ ~StrictEq(v, a.stored[name])
    THEN Attrs(a.m, [a.stored EXCEPT ![name] = v])
    ELSE a

\* get(name) on a derived attribute: the getter's value
getDerived(a, name) ==
    CASE name = "totalPages" -> totalPages(a.m)
      [] name = "itemIndexStart" -> _getItemIndexStart(a.m)
      [] name = "itemIndexEnd" -> _getItemIndexEnd(a.m)

(* -------------------------------------------------- strings in the view *)
\* The strings the view handles: the data-pglink values of the four page
\* controls, the 'All' entry of pageOptions in three letter cases, and a
\* word that is none of them. A string value [t |-> "str", v |-> i] with
\* i > 0 is the i-th of them; v = 0 is "abc".
WordText == <<"first", "prev", "next", "last", "All", "ALL", "all", "any">>

Word(text) ==
    [t |-> "str", v |-> CHOOSE i \in 1 .. Len(WordText) : WordText[i] = text]

\* the text of a string value; a numeral is none of the words
Text(x) ==
    IF x.t # "str" THEN "numeral"
    ELSE IF x.v = 0 THEN "abc" ELSE WordText[x.v]

\* String.prototype.toLowerCase on those strings
toLowerCase(text) == IF text \in {"All", "ALL", "all"} THEN "all" ELSE text

\* Y.Lang.isString
isString(x) == x.t \in {"str", "numstr"}

\* unary plus: ToNumber
ToNumber(x) ==
    CASE x.t = "numstr" -> Num(x.v)
      [] x.t = "str" -> NaN
      [] x.t = "null" -> Num(0)
      [] OTHER -> x

\* a || b
Or(a, b) == IF Truthy(a) THEN a ELSE b

\* a <= b where at least one side is a number
Lte(a, b) == ~IsNaN(a) /\ ~IsNaN(b) /\ a.v <= b.v

(* -------------------------------------------------------------- the view *)
\* One PaginatorView and the content of its container.
\*   circular, maxPageLinks, linkListOffset, alwaysShowFirst, alwaysShowLast
\*                the view's attributes of those names
\*   pageLinks    the template kept in _pagHTML holds the token {pageLinks}
\*   listens      the view's listeners of _bindUI on the model's events are
\*                attached
\*   delegates    the view's delegated listeners of _bindUI on the
\*                container's click and change events are attached
\*   built        the container holds the rendered template: the four page
\*                controls, the page input box and, where the template has
\*                the token, the page links
\*   links        the page links, in order, each [page, pageStartIndex,
\*                pageEndIndex]
\*   disabled     the page controls carrying the class 'disabled'
\*   hidden       the page numbers of the links hidden by _processPageChange
\*   fillerLeft, fillerRight
\*                a pageLinkFiller stands before / after the visible links
\*   inputPage    the value shown in the page input box
\*   threw        the current interaction ended in an uncaught TypeError
\*   renders      the model as each execution of render since the start of
\*                the current interaction found it
\* The class of the current page's link (linkHighLight) and the sizes set by
\* _resizePaginator are not part of the record.
Controls == {"first", "prev", "next", "last"}

\* the view after construction (initializer and _bindUI) with the given
\* attribute values, tmpl telling whether its template holds {pageLinks}
ViewOf(circ, maxpls, offset, first, last, tmpl) ==
    [circular |-> circ, maxPageLinks |-> maxpls, linkListOffset |-> offset,
     alwaysShowFirst |-> first, alwaysShowLast |-> last,
     pageLinks |-> tmpl, listens |-> TRUE, delegates |-> TRUE,
     built |-> FALSE, links |-> <<>>, disabled |-> {}, hidden |-> {},
     fillerLeft |-> FALSE, fillerRight |-> FALSE, inputPage |-> Null,
     threw |-> FALSE, renders |-> <<>>]

\* ATTRS.maxPageLinks.value
DefaultMaxPageLinks == 9999

\* the record while no view is attached to the model
NoView == ViewOf(FALSE, DefaultMaxPageLinks, 1, FALSE, FALSE, TRUE)

\* a model together with the view bound to it
World(m, v) == [m |-> m, v |-> v]

\* variant of _calcOffset: the window ends at the current page
_calcOffset_leftOnly(npage, cpage, offset) ==
    [left |-> IF cpage - offset < 1 THEN 1 ELSE cpage - offset,
     right |-> cpage]

\* _calcOffset(cpage, offset) with npage = model.get('totalPages')
_calcOffset(npage, cpage, offset) ==
    [left |-> IF cpage - offset < 1 THEN 1 ELSE cpage - offset,
     right |-> IF cpage + offset > npage THEN npage ELSE cpage + offset]

\* the controls _processPageChange leaves disabled
disabledAt(cpage, npage, circ) ==
    IF StrictEq(cpage, Num(1)) /\ ~circ THEN {"first", "prev"}
    ELSE IF StrictEq(cpage, npage) /\ ~circ THEN {"last", "next"}
    ELSE {}

\* the fillers _processPageChange inserts around the window offs
fillersAt(offs, npage, linkOffset) ==
    [left |-> offs.left - linkOffset > 0,
     right |-> offs.right + linkOffset <= npage]

\* _processPageChange(cpage). A filler is inserted next to the page link at
\* the edge of the window; when the container holds fewer page links than
\* that (links built for an earlier sizing), or the edge lies before the
\* first link (a current page of -linkListOffset or less), plNodes.item(..)
\* is null and the insert throws a TypeError, the left insert before the
\* right one. The first and the last page's link keep their class under
\* alwaysShowFirst and alwaysShowLast.
_processPageChange(w, cpage) ==
    LET v == w.v
        npage == totalPages(w.m)
        v1 == IF v.built
              THEN [v EXCEPT !.disabled = disabledAt(cpage, npage, v.circular),
                             !.inputPage = cpage]
              ELSE v
    IN  IF Lte(npage, Num(v.maxPageLinks)) \/ Len(v.links) = 0
        THEN World(w.m, v1)
        ELSE LET offs == _calcOffset(npage.v, cpage.v, v.linkListOffset)
                 fill == fillersAt(offs, npage.v, v.linkListOffset)
                 kept(i) == \/ i - 1 = 0 /\ v.alwaysShowFirst
                            \/ i - 1 = npage.v - 1 /\ v.alwaysShowLast
                 leftThrows == fill.left /\ offs.left > Len(v.links)
                 rightThrows == /\ ~leftThrows
                                /\ fill.right
                                /\ \/ offs.right < 1
                                   \/ offs.right > Len(v.links)
             IN  World(w.m,
                   [v1 EXCEPT
                      !.hidden = {i \in 1 .. Len(v.links) :
                                    IF kept(i) THEN i \in v.hidden
                                    ELSE i < offs.left \/ i > offs.right},
                      !.fillerLeft = fill.left /\ ~leftThrows,
                      !.fillerRight = fill.right /\ ~leftThrows
                                        /\ ~rightThrows,
                      !.threw = leftThrows \/ rightThrows])

\* the page link render builds for page i
pageLink(i, nsize, nperpage) ==
    LET plIStart == (i - 1) * nperpage + 1
        plIEnd == plIStart + nperpage - 1
    IN  [page |-> i, pageStartIndex |-> plIStart,
         pageEndIndex |-> IF plIEnd >= nsize THEN nsize ELSE plIEnd]

\* render(): nothing is built while totalItems or itemsPerPage is falsy;
\* otherwise the container's content is replaced by the template, with one
\* page link per page where the template holds {pageLinks}, and
\* _processPageChange runs for the current page
render(w) ==
    LET m == w.m
        nsize == m.totalItems
        nperpage == m.itemsPerPage
        npage == totalPages(m)
        cpage == Or(m.page, Num(1))
        v == [w.v EXCEPT !.renders = Append(@, m)]
    IN  IF ~Truthy(nsize) \/ ~Truthy(nperpage)
        THEN World(m, v)
        ELSE LET n == IF v.pageLinks /\ Gt(npage, Num(0)) THEN npage.v
                      ELSE 0
             IN  _processPageChange(
                   World(m, [v EXCEPT
                       !.built = TRUE,
                       !.links = [i \in 1 .. n |->
                                    pageLink(i, nsize.v, nperpage.v)],
                       !.disabled = {},
                       !.hidden = {},
                       !.fillerLeft = FALSE,
                       !.fillerRight = FALSE,
                       !.inputPage = cpage]),
                   cpage)

\* variant of _modelPageChange: the handler sets the model's page back to
\* lastPage
_modelPageChange_writeBack(w, newPage) ==
    IF Truthy(newPage)
    THEN LET w1 == _processPageChange(w, newPage)
         IN  IF Truthy(w.m.lastPage)
             THEN World([w.m EXCEPT !.page = w.m.lastPage,
                                    !.lastPage = w.m.page], w1.v)
             ELSE w1
    ELSE w

\* _modelPageChange(e), the view's listener after the model's pageChange
_modelPageChange(w, newPage) ==
    IF Truthy(newPage) THEN _processPageChange(w, newPage) ELSE w

\* _modelStateChange(e), the view's listener after the model's
\* itemsPerPageChange and totalItemsChange; silent is e.silent, an option of
\* the set that the event carries
_modelStateChange(w, newRPP, silent) ==
    IF Truthy(newRPP) /\ ~silent THEN render(w) ELSE w

\* the view's pageChange listener, while attached, run for each
\* notification in turn; an exception thrown by the listener ends the set
\* that notified it
RECURSIVE notifyView(_, _)
notifyView(w, notes) ==
    IF notes = <<>> \/ w.v.threw \/ ~w.v.listens THEN w
    ELSE notifyView(_modelPageChange(w, Head(notes).newVal), Tail(notes))

\* model.set('page', v) with a view bound to the model
setPageBound(w, v) ==
    notifyView(World(setPage(w.m, v), w.v), pageChangeNotes(w.m, v))

\* the model's listener _recalcPagnParams, subscribed before the view's
\* _modelStateChange, returned false after the sizing change that gave s: a
\* listener that returns false stops the event, later listeners are not
\* called
stopsEvent(s, event) ==
    event \in s.subscr /\ ~canRecalc(s.totalItems, s.itemsPerPage)

\* model.set('itemsPerPage', v, {silent: silent}) with a view bound to the
\* model: the model's own listener runs first and resets the page, which
\* notifies _modelPageChange; then _modelStateChange runs, unless it is
\* detached, _modelPageChange threw or the model's listener returned false
setItemsPerPageBound(w, v, silent) ==
    LET m1 == setItemsPerPage(w.m, v)
        w1 == notifyView(World(m1, w.v), setItemsPerPageNotes(w.m, v))
    IN  IF /\ isNumber(v) /\ ~StrictEq(v, w.m.itemsPerPage)
           /\ w1.v.listens
           /\ ~w1.v.threw
           /\ ~stopsEvent(m1, "itemsPerPageChange")
        THEN _modelStateChange(w1, v, silent) ELSE w1

\* model.set('totalItems', v, {silent: silent}) with a view bound to the
\* model
setTotalItemsBound(w, v, silent) ==
    LET m1 == setTotalItems(w.m, v)
        w1 == notifyView(World(m1, w.v), setTotalItemsNotes(w.m, v))
    IN  IF /\ isNumber(v) /\ ~StrictEq(v, w.m.totalItems)
           /\ w1.v.listens
           /\ ~w1.v.threw
           /\ ~stopsEvent(m1, "totalItemsChange")
        THEN _modelStateChange(w1, v, silent) ELSE w1

\* variant of _inputChangePage: an entry out of range is passed on as typed
_inputChangePage_noReset(w, value) ==
    setPageBound(World(w.m, [w.v EXCEPT !.inputPage = value]),
                 Or(ToNumber(value), Num(1)))

\* _inputChangePage(e): value is what the user typed into the page input
\* box, which shows it when the handler starts
_inputChangePage(w, value) ==
    LET val == Or(ToNumber(value), Num(1))
        typed == World(w.m, [w.v EXCEPT !.inputPage = value])
    IN  IF Lt(val, Num(1)) \/ Gt(val, totalPages(w.m))
        THEN setPageBound(World(w.m, [w.v EXCEPT !.inputPage = Num(1)]),
                          Num(1))
        ELSE setPageBound(typed, val)

\* variant of clickedPage: prev and next stop at the ends
clickedPage_noWrap(pglink, cpage, npage) ==
    CASE Text(pglink) = "first" -> Num(1)
      [] Text(pglink) = "last" -> npage
      [] Text(pglink) = "prev" ->
            IF ~Truthy(cpage) \/ StrictEq(cpage, Num(1)) THEN Num(1)
            ELSE Num(cpage.v - 1)
      [] Text(pglink) = "next" ->
            IF ~Truthy(cpage) THEN Num(1)
            ELSE IF StrictEq(cpage, npage) THEN npage
            ELSE Num(cpage.v + 1)
      [] OTHER -> ToNumber(pglink)

\* the page a click on the link with data-pglink = pglink asks for: the
\* switch of _clickChangePage
clickedPage(pglink, cpage, npage) ==
    CASE Text(pglink) = "first" -> Num(1)
      [] Text(pglink) = "last" -> npage
      [] Text(pglink) = "prev" ->
            IF ~Truthy(cpage) THEN Num(1)
            ELSE IF StrictEq(cpage, Num(1)) THEN npage
            ELSE Num(cpage.v - 1)
      [] Text(pglink) = "next" ->
            IF ~Truthy(cpage) THEN Num(1)
            ELSE IF StrictEq(cpage, npage) THEN Num(1)
            ELSE Num(cpage.v + 1)
      [] OTHER -> ToNumber(pglink)

\* the link carries the class 'disabled'
hasDisabled(v, pglink) == Text(pglink) \in v.disabled

\* _clickChangePage(e): pglink is the data-pglink of the link clicked
_clickChangePage(w, pglink) ==
    LET cpage == w.m.page
        npage == totalPages(w.m)
    IN  IF hasDisabled(w.v, pglink) THEN w
        ELSE IF Truthy(cpage) /\ StrictEq(cpage, pglink) THEN w
        ELSE setPageBound(w, clickedPage(pglink, cpage, npage))

\* variant of _selectChangeRowOptions: 'All' is matched as spelt in
\* pageOptions
_selectChangeRowOptions_exact(w, value) ==
    LET val == Or(ToNumber(value), value)
        w1 == setItemsPerPageBound(w,
                 IF isString(val) /\ Text(val) = "All"
                 THEN w.m.totalItems ELSE val, FALSE)
    IN  IF w1.v.threw THEN w1 ELSE render(w1)

\* _selectChangeRowOptions(e): value is the option chosen or the text typed;
\* this.render() is not reached when the set threw
_selectChangeRowOptions(w, value) ==
    LET val == Or(ToNumber(value), value)
        w1 == setItemsPerPageBound(w,
                 IF isString(val) /\ toLowerCase(Text(val)) = "all"
                 THEN w.m.totalItems ELSE val, FALSE)
    IN  IF w1.v.threw THEN w1 ELSE render(w1)

\* the view's destructor: every handle of _subscr is detached; the content
\* of the container stays
viewDestructor(v) == [v EXCEPT !.listens = FALSE, !.delegates = FALSE]

\* One interaction listener by listener. A call of a view listener that is
\* still to run is [fn, newVal, silent]: the listener, and e.newVal and
\* e.silent of the event it is called with.
ListenerCall(fn, newVal, silent) ==
    [fn |-> fn, newVal |-> newVal, silent |-> silent]

\* the calls of _modelPageChange for the notifications notes, in order
pageChangeCalls(v, notes) ==
    IF v.listens
    THEN [i \in 1 .. Len(notes) |->
            ListenerCall("_modelPageChange", notes[i].newVal, FALSE)]
    ELSE <<>>

\* the call of _modelStateChange after a set of a sizing attribute from old
\* to val that gave model m1: the attribute changed and the model's own
\* listener did not stop the event
stateChangeCalls(v, m1, event, old, val, silent) ==
    IF /\ v.listens
       /\ isNumber(val) /\ ~StrictEq(val, old)
       /\ ~stopsEvent(m1, event)
    THEN <<ListenerCall("_modelStateChange", val, silent)>>
    ELSE <<>>

\* the view listener of call c run on w
runListener(w, c) ==
    CASE c.fn = "_modelPageChange" -> _modelPageChange(w, c.newVal)
      [] c.fn = "_modelStateChange" ->
            _modelStateChange(w, c.newVal, c.silent)
      [] c.fn = "render" -> render(w)

\* the calls of view listeners that a listener brings about by changing
\* the model from m to m1: the model notifies a changed page, itemsPerPage
\* and totalItems to the listeners of _bindUI, a sizing change unless the
\* model's own listener stops the event
feedback(v, m, m1) ==
    (IF m1.page # m.page
     THEN pageChangeCalls(v, <<[newVal |-> m1.page]>>) ELSE <<>>)
      \o (IF m1.itemsPerPage # m.itemsPerPage
          THEN stateChangeCalls(v, m1, "itemsPerPageChange", m.itemsPerPage,
                                m1.itemsPerPage, FALSE)
          ELSE <<>>)
      \o (IF m1.totalItems # m.totalItems
          THEN stateChangeCalls(v, m1, "totalItemsChange", m.totalItems,
                                m1.totalItems, FALSE)
          ELSE <<>>)

\* the page _clickChangePage sets for a click on pglink, if it sets one
clickSets(w, pglink) ==
    LET cpage == w.m.page
    IN  IF hasDisabled(w.v, pglink) THEN <<>>
        ELSE IF Truthy(cpage) /\ StrictEq(cpage, pglink) THEN <<>>
        ELSE <<clickedPage(pglink, cpage, totalPages(w.m))>>

\* the page _inputChangePage sets for the entry value
inputSets(w, value) ==
    LET val == Or(ToNumber(value), Num(1))
    IN  IF Lt(val, Num(1)) \/ Gt(val, totalPages(w.m))
        THEN Num(1) ELSE val

\* the itemsPerPage _selectChangeRowOptions sets for the entry value
selectSets(w, value) ==
    LET val == Or(ToNumber(value), value)
    IN  IF isString(val) /\ toLowerCase(Text(val)) = "all"
        THEN w.m.totalItems ELSE val

(* ---------------------------------------------------------------- inputs *)
NonNumeric == {Null, NaN, Str}
SizeArgs == {Num(n) : n \in (-1 .. MaxSize) \cup {50, 500}} \cup {Null, Str}
PageArgs == {Num(n) : n \in -1 .. MaxPageArg} \cup NonNumeric \cup {NumStr(2)}
LastPageArgs == {Num(1), Str}

\* the sizes and pages of the documented examples: 500 items at 50 and at 33
\* per page, 95 items at 10 per page
DocTotals == {Num(0), Num(95), Num(500)}
DocPerPage == {Num(10), Num(33), Num(50)}
DocPages == {Num(n) : n \in {0, 1, 3, 5, 10, 16, 17}} \cup {Str}
DocInner == {Num(0), Num(1), Num(5), Num(17)}

(* ----------------------------------------------------------- the machine *)
Cur == State(totalItems, itemsPerPage, page, lastPage, _npages, _subscr)

Becomes(s) ==
    /\ totalItems' = s.totalItems
    /\ itemsPerPage' = s.itemsPerPage
    /\ page' = s.page
    /\ lastPage' = s.lastPage
    /\ _npages' = s.npages
    /\ _subscr' = s.subscr

Called(op, arg, inner) ==
    call' = [op |-> op, arg |-> arg, inner |-> inner, pre |-> Cur]

Constructed(ti, ipp) ==
    LET s == initializer(ti, ipp)
    IN  /\ totalItems = s.totalItems
        /\ itemsPerPage = s.itemsPerPage
        /\ page = s.page
        /\ lastPage = s.lastPage
        /\ _npages = s.npages
        /\ _subscr = s.subscr
        /\ stored = NoStored
        /\ view = NoView
        /\ pending = <<>>
        /\ call = [op |-> "construct", arg |-> Null, inner |-> Null,
                   pre |-> s]

Init == \E ti \in SizeArgs, ipp \in SizeArgs : Constructed(ti, ipp)

SetTotalItemsIn(args) ==
    \E v \in args :
        /\ Becomes(setTotalItems(Cur, v))
        /\ Called("setTotalItems", v, Null)
        /\ UNCHANGED <<stored, view, pending>>

SetItemsPerPageIn(args) ==
    \E v \in args :
        /\ Becomes(setItemsPerPage(Cur, v))
        /\ Called("setItemsPerPage", v, Null)
        /\ UNCHANGED <<stored, view, pending>>

SetPageIn(args) ==
    \E v \in args :
        /\ Becomes(setPage(Cur, v))
        /\ Called("setPage", v, Null)
        /\ UNCHANGED <<stored, view, pending>>

SetTotalItems == SetTotalItemsIn(SizeArgs)

SetItemsPerPage == SetItemsPerPageIn(SizeArgs)

SetPage == SetPageIn(PageArgs)

\* set('lastPage', v) by the program
SetLastPage ==
    \E v \in LastPageArgs :
        /\ Becomes(setLastPage(Cur, v))
        /\ Called("setLastPage", v, Null)
        /\ UNCHANGED <<stored, view, pending>>

Destroy ==
    /\ _subscr # {}
    /\ Becomes(destructor(Cur))
    /\ Called("destroy", Null, Null)
    /\ UNCHANGED <<stored, view, pending>>

Next ==
    \/ SetTotalItems
    \/ SetItemsPerPage
    \/ SetPage
    \/ SetLastPage
    \/ Destroy

Spec == Init /\ [][Next]_vars

\* The documented examples, with an observer of pageChange that sets the page
\* again from inside its notification.
InitDoc == \E ti \in DocTotals, ipp \in DocPerPage : Constructed(ti, ipp)

DocSetTotalItems == SetTotalItemsIn(DocTotals)

DocSetItemsPerPage == SetItemsPerPageIn(DocPerPage)

DocSetPage == SetPageIn(DocPages)

DocSetPageNested ==
    \E n \in DocPages, m \in DocInner :
        /\ Becomes(setPageNested(Cur, n, m))
        /\ Called("setPageNested", n, m)
        /\ UNCHANGED <<stored, view, pending>>

NextDoc ==
    \/ DocSetTotalItems
    \/ DocSetItemsPerPage
    \/ DocSetPage
    \/ DocSetPageNested
    \/ Destroy

SpecDoc == InitDoc /\ [][NextDoc]_vars

\* A model with a view bound to it.
ViewTotals == {Null, Num(2), Num(ViewItems)}
ViewPerPage == {Num(1), Num(2)}
MaxPageLinksArgs == {ShortList, DefaultMaxPageLinks}
LinkListOffsetArgs == {1, 2}
ViewConfigs ==
    {ViewOf(FALSE, ShortList, k, FALSE, FALSE, TRUE) :
        k \in LinkListOffsetArgs}
      \cup {ViewOf(FALSE, DefaultMaxPageLinks, 1, FALSE, FALSE, tmpl) :
              tmpl \in BOOLEAN}
ViewSizeArgs == {Num(2), Num(ViewItems)}
ViewPageArgs == {Num(-1), Num(2)}
PageEntries == {NumStr(n) : n \in {-1, 0, 3, ViewItems + 1}} \cup {Str}
RowEntries ==
    {NumStr(n) : n \in {-1, 1}}
      \cup {Word("All"), Word("ALL"), Word("all"), Word("any")}

\* a boolean as the argument of a call
Bool(b) == [t |-> "bool", v |-> IF b THEN 1 ELSE 0]

\* the model and the view as they are when an interaction starts
Now == World(Cur, [view EXCEPT !.renders = <<>>, !.threw = FALSE])

BecomesWorld(w) ==
    /\ Becomes(w.m)
    /\ view' = w.v
    /\ UNCHANGED <<stored, pending>>

\* the record of an interaction with the view: the call, the model and the
\* view before it, and the number of interactions so far
CalledWith(op, arg, silent) ==
    call' = [op |-> op, arg |-> arg, inner |-> Null, pre |-> Cur,
             preview |-> view, silent |-> silent, n |-> call.n + 1]

CalledView(op, arg) == CalledWith(op, arg, FALSE)

\* new Y.PaginatorView({model: new Y.PaginatorModel(...), container: ...})
InitView ==
    \E ti \in ViewTotals, ipp \in ViewPerPage, cfg \in ViewConfigs :
        LET m == initializer(ti, ipp)
        IN  /\ totalItems = m.totalItems
            /\ itemsPerPage = m.itemsPerPage
            /\ page = m.page
            /\ lastPage = m.lastPage
            /\ _npages = m.npages
            /\ _subscr = m.subscr
            /\ stored = NoStored
            /\ view = cfg
            /\ pending = <<>>
            /\ call = [op |-> "construct", arg |-> Null, inner |-> Null,
                       pre |-> m, preview |-> cfg, silent |-> FALSE,
                       n |-> 0]

\* behaviours are followed for MaxCalls interactions
Within == call.n < MaxCalls

\* the data-pglink values of the links a user can click: the four page
\* controls and the page links that are not hidden
Clickable ==
    {Word(c) : c \in Controls}
      \cup {NumStr(i) : i \in (1 .. Len(view.links)) \ view.hidden}

\* a click on a page control or page link, delegated to _clickChangePage;
\* after view.destroy() the events of the container reach no handler of the
\* view
Click ==
    /\ Within
    /\ \E pglink \in Clickable :
        /\ view.built
        /\ view.delegates
        /\ BecomesWorld(_clickChangePage(Now, pglink))
        /\ CalledView("click", pglink)

\* a change of the page input box, delegated to _inputChangePage
InputPage ==
    /\ Within
    /\ \E value \in PageEntries :
        /\ view.built
        /\ view.delegates
        /\ BecomesWorld(_inputChangePage(Now, value))
        /\ CalledView("inputPage", value)

\* a change of the rows-per-page control, delegated to
\* _selectChangeRowOptions
SelectRows ==
    /\ Within
    /\ \E value \in RowEntries :
        /\ view.built
        /\ view.delegates
        /\ BecomesWorld(_selectChangeRowOptions(Now, value))
        /\ CalledView("selectRows", value)

\* the program sets the model's page
ViewSetPage ==
    /\ Within
    /\ \E v \in ViewPageArgs :
        /\ BecomesWorld(setPageBound(Now, v))
        /\ CalledView("setPage", v)

\* the program sets the model's totalItems
ViewSetTotalItems ==
    /\ Within
    /\ \E v \in ViewSizeArgs, silent \in BOOLEAN :
        /\ BecomesWorld(setTotalItemsBound(Now, v, silent))
        /\ CalledWith("setTotalItems", v, silent)

\* the program sets the model's itemsPerPage
ViewSetItemsPerPage ==
    /\ Within
    /\ \E v \in ViewPerPage, silent \in BOOLEAN :
        /\ BecomesWorld(setItemsPerPageBound(Now, v, silent))
        /\ CalledWith("setItemsPerPage", v, silent)

\* the program calls view.render()
ViewRender ==
    /\ Within
    /\ BecomesWorld(render(Now))
    /\ CalledView("render", Null)

\* view.set('circular', b); the attributes of the view are plain values,
\* the container shows a new value from the next _processPageChange on
ViewSetCircular ==
    /\ Within
    /\ \E b \in BOOLEAN :
        /\ BecomesWorld(World(Cur, [Now.v EXCEPT !.circular = b]))
        /\ CalledView("circular", Bool(b))

\* view.set('maxPageLinks', n)
ViewSetMaxPageLinks ==
    /\ Within
    /\ \E n \in MaxPageLinksArgs :
        /\ BecomesWorld(World(Cur, [Now.v EXCEPT !.maxPageLinks = n]))
        /\ CalledView("maxPageLinks", Num(n))

\* view.set('linkListOffset', n)
ViewSetLinkListOffset ==
    /\ Within
    /\ \E n \in LinkListOffsetArgs :
        /\ BecomesWorld(World(Cur, [Now.v EXCEPT !.linkListOffset = n]))
        /\ CalledView("linkListOffset", Num(n))

\* view.set('alwaysShowFirst', b)
ViewSetAlwaysShowFirst ==
    /\ Within
    /\ \E b \in BOOLEAN :
        /\ BecomesWorld(World(Cur, [Now.v EXCEPT !.alwaysShowFirst = b]))
        /\ CalledView("alwaysShowFirst", Bool(b))

\* view.set('alwaysShowLast', b)
ViewSetAlwaysShowLast ==
    /\ Within
    /\ \E b \in BOOLEAN :
        /\ BecomesWorld(World(Cur, [Now.v EXCEPT !.alwaysShowLast = b]))
        /\ CalledView("alwaysShowLast", Bool(b))

\* view.destroy()
ViewDestroy ==
    /\ Within
    /\ BecomesWorld(World(Cur, viewDestructor(Now.v)))
    /\ CalledView("destroyView", Null)

\* model.destroy(): the model's destructor detaches the model's own
\* listeners. Y.Base, which is not part of this source, then detaches every
\* other listener of the model's events in the versions that end destroy()
\* with detachAll(); the view's listeners on the model are gone or still
\* attached accordingly.
ModelDestroy ==
    /\ Within
    /\ \E detachAll \in BOOLEAN :
        /\ BecomesWorld(World(destructor(Cur),
                                  [Now.v EXCEPT !.listens = @ /\ ~detachAll]))
        /\ CalledView("destroy", Bool(detachAll))

NextView ==
    \/ Click
    \/ InputPage
    \/ SelectRows
    \/ ViewSetPage
    \/ ViewSetTotalItems
    \/ ViewSetItemsPerPage
    \/ ViewRender
    \/ ViewSetCircular
    \/ ViewSetMaxPageLinks
    \/ ViewSetLinkListOffset
    \/ ViewSetAlwaysShowFirst
    \/ ViewSetAlwaysShowLast
    \/ ViewDestroy
    \/ ModelDestroy

SpecView == InitView /\ [][NextView]_vars

\* The interactions of a user with a rendered view, one listener at a time:
\* a handler of a container event sets the model, the model's own listeners
\* included, and the view's listeners that the set notifies run one by one
\* from pending.
InitLoop ==
    \E ti \in ViewTotals, ipp \in ViewPerPage, cfg \in ViewConfigs :
        LET w == render(World(initializer(ti, ipp), cfg))
        IN  /\ totalItems = w.m.totalItems
            /\ itemsPerPage = w.m.itemsPerPage
            /\ page = w.m.page
            /\ lastPage = w.m.lastPage
            /\ _npages = w.m.npages
            /\ _subscr = w.m.subscr
            /\ stored = NoStored
            /\ view = w.v
            /\ pending = <<>>
            /\ call = [op |-> "render", arg |-> Null, inner |-> Null,
                       pre |-> w.m, preview |-> cfg, silent |-> FALSE,
                       n |-> 0]

\* the model and the view after a step of an interaction
BecomesStep(m, v) ==
    /\ Becomes(m)
    /\ view' = v
    /\ UNCHANGED stored

\* no interaction is under way, and another may start
Idle ==
    /\ pending = <<>>
    /\ call.n < MaxLoopCalls

\* a click: _clickChangePage up to the return of its model.set
LoopClick ==
    /\ Idle
    /\ \E pglink \in Clickable :
        LET sets == clickSets(Now, pglink)
        IN  /\ view.built
            /\ view.delegates
            /\ IF sets = <<>>
               THEN BecomesStep(Cur, Now.v) /\ pending' = <<>>
               ELSE /\ BecomesStep(setPage(Cur, sets[1]), Now.v)
                    /\ pending' = pageChangeCalls(Now.v,
                                      pageChangeNotes(Cur, sets[1]))
            /\ CalledView("click", pglink)

\* a change of the page input box: _inputChangePage up to the return of
\* its model.set
LoopInput ==
    /\ Idle
    /\ \E value \in PageEntries :
        LET val == inputSets(Now, value)
            typed == IF val = Or(ToNumber(value), Num(1)) THEN value
                     ELSE Num(1)
        IN  /\ view.built
            /\ view.delegates
            /\ BecomesStep(setPage(Cur, val),
                           [Now.v EXCEPT !.inputPage = typed])
            /\ pending' = pageChangeCalls(Now.v, pageChangeNotes(Cur, val))
            /\ CalledView("inputPage", value)

\* a change of the rows-per-page control: _selectChangeRowOptions up to the
\* return of its model.set, its own render still to run
LoopSelect ==
    /\ Idle
    /\ \E value \in RowEntries :
        LET val == selectSets(Now, value)
            m1 == setItemsPerPage(Cur, val)
        IN  /\ view.built
            /\ view.delegates
            /\ BecomesStep(m1, Now.v)
            /\ pending' =
                  pageChangeCalls(Now.v, setItemsPerPageNotes(Cur, val))
                    \o stateChangeCalls(Now.v, m1, "itemsPerPageChange",
                                        itemsPerPage, val, FALSE)
                    \o <<ListenerCall("render", Null, FALSE)>>
            /\ CalledView("selectRows", value)

\* the next listener runs; what it changes in the model is notified before
\* the listeners already pending, and an exception ends the interaction
Deliver ==
    /\ pending # <<>>
    /\ LET w == World(Cur, view)
           w1 == runListener(w, Head(pending))
       IN  /\ BecomesStep(w1.m, w1.v)
           /\ pending' = IF w1.v.threw THEN <<>>
                         ELSE feedback(w1.v, w.m, w1.m) \o Tail(pending)
    /\ UNCHANGED call

NextLoop ==
    \/ LoopClick
    \/ LoopInput
    \/ LoopSelect
    \/ Deliver

\* a listener that is called runs: the dispatch is synchronous
SpecLoop == InitLoop /\ [][NextLoop]_vars /\ WF_vars(Deliver)

\* Direct sets of the derived attributes, among sets of the others.
DerivedArgs == {Num(7), Str}

SetDerived ==
    \E name \in Derived, v \in DerivedArgs :
        LET a == setDerived(Attrs(Cur, stored), name, v)
        IN  /\ Becomes(a.m)
            /\ stored' = a.stored
            /\ UNCHANGED <<view, pending>>
            /\ Called(name, v, Null)

NextAttrs ==
    \/ SetDerived
    \/ DocSetTotalItems
    \/ DocSetItemsPerPage
    \/ DocSetPage

SpecAttrs == InitDoc /\ [][NextAttrs]_vars

(* ---------------------------------------------------------------- claims *)
\* the listeners are attached: the model was constructed and not destroyed
Live == _subscr = Listeners

\* the last call was made on a model whose listeners were attached
PreLive == call.pre.subscr = Listeners

SizingCall == call.op \in {"setTotalItems", "setItemsPerPage"}

\* the least k with k * b >= a, for a > 0 and b > 0
Ceil(a, b) == CHOOSE k \in 0 .. a : k * b >= a /\ (k - 1) * b < a

\* C1: in every state reached by construct, setTotalItems, setItemsPerPage
\* and setPage calls, totalPages > 0 implies 1 <= page <= totalPages.
C1_PageInRange ==
    Live /\ Gt(_npages, Num(0)) =>
        isNumber(page) /\ 1 <= page.v /\ page.v <= _npages.v

C1_Witness ==
    /\ Live
    /\ call.op = "setPage"
    /\ call.pre.page # page
    /\ _npages.v > 1
    /\ page = _npages

\* C2: for totalItems > 0 and itemsPerPage > 0, however they were set,
\* totalPages is the ceiling of totalItems / itemsPerPage.
C2_TotalPagesIsCeil ==
    Live /\ isNumber(totalItems) /\ isNumber(itemsPerPage)
         /\ totalItems.v > 0 /\ itemsPerPage.v > 0 =>
        _npages = Num(Ceil(totalItems.v, itemsPerPage.v))

C2_Witness ==
    /\ Live
    /\ SizingCall
    /\ Cur # call.pre
    /\ isNumber(totalItems) /\ isNumber(itemsPerPage)
    /\ totalItems.v > itemsPerPage.v /\ itemsPerPage.v > 0
    /\ totalItems.v % itemsPerPage.v > 0

\* C3: setPage(n) with n < 1 or n > totalPages leaves page and lastPage as
\* they were.
C3_OutOfRangeRejected ==
    /\ call.op = "setPage"
    /\ PreLive
    /\ Lt(call.arg, Num(1)) \/ Gt(call.arg, totalPages(call.pre))
    => page = call.pre.page /\ lastPage = call.pre.lastPage

C3_Witness ==
    /\ call.op = "setPage"
    /\ PreLive
    /\ Truthy(totalPages(call.pre)) /\ Truthy(call.pre.itemsPerPage)
    /\ isNumber(call.arg) /\ Gt(call.arg, totalPages(call.pre))
    /\ call.pre.page.v > 1
    /\ page = call.pre.page /\ lastPage = call.pre.lastPage

\* the last call was setPage(n) with n a number in 1 .. totalPages other than
\* the current page, on a model with paging enabled
AcceptedSetPage ==
    /\ call.op = "setPage"
    /\ PreLive
    /\ Truthy(totalPages(call.pre)) /\ Truthy(call.pre.itemsPerPage)
    /\ isNumber(call.arg)
    /\ 1 <= call.arg.v /\ call.arg.v <= totalPages(call.pre).v
    /\ call.arg # call.pre.page

\* C4: an accepted setPage(n) sets page to n and lastPage to the page before
\* the call; from the initial state of 500 items at 50 per page, setPage(3)
\* gives lastPage 1 and page 3.
C4_AcceptedSetPage ==
    AcceptedSetPage => page = call.arg /\ lastPage = call.pre.page

C4_Witness ==
    /\ call.op = "setPage"
    /\ call.pre = initializer(Num(500), Num(50))
    /\ call.arg = Num(3)
    /\ page = Num(3)
    /\ lastPage = Num(1)

\* C5: setPage(n) with a non-numeric n leaves page and lastPage as they
\* were.
C5_NonNumericRejected ==
    call.op = "setPage" /\ PreLive /\ ~isNumber(call.arg) =>
        page = call.pre.page /\ lastPage = call.pre.lastPage

\* C6: setPage(p) with p the current page changes nothing, lastPage
\* included.
C6_SamePageNoOp ==
    call.op = "setPage" /\ PreLive /\ call.arg = call.pre.page =>
        Cur = call.pre

\* the last call was a sizing call with a new value of the attribute's
\* domain: a number >= 0 for totalItems, a number > 0 for itemsPerPage
AcceptedSizingCall ==
    /\ SizingCall
    /\ PreLive
    /\ isNumber(call.arg)
    /\ call.op = "setTotalItems" =>
           call.arg.v >= 0 /\ call.arg # call.pre.totalItems
    /\ call.op = "setItemsPerPage" =>
           call.arg.v > 0 /\ call.arg # call.pre.itemsPerPage

\* C7: every accepted setTotalItems or setItemsPerPage call leaves page at 1,
\* also when the new sizing inputs leave paging disabled.
C7_SizingResetsPage ==
    AcceptedSizingCall => page = Num(1)

\* C8: after every accepted setTotalItems or setItemsPerPage call,
\* totalPages is the ceiling of totalItems / itemsPerPage when both are
\* positive and 0 or unset otherwise.
C8_TotalPagesCurrent ==
    AcceptedSizingCall =>
        IF totalItems.v > 0 /\ itemsPerPage.v > 0
        THEN _npages = Num(Ceil(totalItems.v, itemsPerPage.v))
        ELSE _npages \in {Null, Num(0)}

\* C9: setTotalItems with a non-numeric or negative value and
\* setItemsPerPage with a non-numeric, zero or negative value change none of
\* totalItems, itemsPerPage, totalPages, page, lastPage.
C9_InvalidSizingRejected ==
    \/ call.op = "setTotalItems" /\ (~isNumber(call.arg) \/ call.arg.v < 0)
    \/ call.op = "setItemsPerPage" /\ (~isNumber(call.arg) \/ call.arg.v <= 0)
    => Cur = call.pre

\* C10: while totalPages or itemsPerPage is zero or unset, setPage(n) leaves
\* page and lastPage as they were, for every n; a model constructed without
\* sizing inputs has totalPages unset, page 1 and lastPage unset.
C10_DisabledRejects ==
    /\ call.op = "setPage" /\ PreLive
         /\ (~Truthy(totalPages(call.pre)) \/ ~Truthy(call.pre.itemsPerPage))
       => page = call.pre.page /\ lastPage = call.pre.lastPage
    /\ call.op = "construct" /\ totalItems = Null /\ itemsPerPage = Null
       => _npages = Null /\ page = Num(1) /\ lastPage = Null

C10_Witness ==
    /\ call.op = "setPage"
    /\ call.pre = initializer(Null, Null)
    /\ call.arg = Num(2)
    /\ page = Num(1)
    /\ lastPage = Null

\* totalPages and itemsPerPage are both set and not zero
PagingEnabled(s) == Truthy(totalPages(s)) /\ Truthy(s.itemsPerPage)

\* both sizing inputs are positive numbers
BothPositive(s) ==
    /\ isNumber(s.totalItems) /\ s.totalItems.v > 0
    /\ isNumber(s.itemsPerPage) /\ s.itemsPerPage.v > 0

Min(a, b) == CHOOSE x \in {a, b} : \A y \in {a, b} : x <= y

itemIndexStart == _getItemIndexStart(Cur)

itemIndexEnd == _getItemIndexEnd(Cur)

\* C11: with paging enabled, itemIndexStart = (page-1)*itemsPerPage and
\* itemIndexEnd = min(itemIndexStart + itemsPerPage, totalItems), which never
\* exceeds totalItems; for 500 items at 50 per page, page 3 gives 100 and 150
\* and page 10 gives 450 and 500.
C11_IndexRange ==
    PagingEnabled(Cur) =>
        /\ isNumber(itemIndexStart) /\ isNumber(itemIndexEnd)
        /\ itemIndexStart.v = (page.v - 1) * itemsPerPage.v
        /\ itemIndexEnd.v =
               Min(itemIndexStart.v + itemsPerPage.v, totalItems.v)
        /\ itemIndexEnd.v <= totalItems.v
        /\ totalItems = Num(500) /\ itemsPerPage = Num(50) /\ page = Num(3)
           => itemIndexStart = Num(100) /\ itemIndexEnd = Num(150)
        /\ totalItems = Num(500) /\ itemsPerPage = Num(50) /\ page = Num(10)
           => itemIndexStart = Num(450) /\ itemIndexEnd = Num(500)

C11_Witness ==
    /\ Live
    /\ call.op = "setPage"
    /\ call.arg = Num(10)
    /\ totalItems = Num(500) /\ itemsPerPage = Num(50) /\ page = Num(10)
    /\ itemIndexEnd = Num(500)

\* C12: itemIndexEnd is the zero-based index of the last item of the current
\* page: for 500 items at 50 per page, after set('page', 3) the attributes
\* are lastPage 1, page 3, itemIndexStart 100, itemIndexEnd 149.
C12_EndIsLastItem ==
    /\ call.op = "setPage" /\ call.arg = Num(3)
         /\ call.pre = initializer(Num(500), Num(50))
       => /\ lastPage = Num(1) /\ page = Num(3)
          /\ itemIndexStart = Num(100) /\ itemIndexEnd = Num(149)
    /\ Live /\ BothPositive(Cur)
       => itemIndexEnd.v =
              Min(itemIndexStart.v + itemsPerPage.v, totalItems.v) - 1

\* C13: after setPage(5) on a 10-page set, an accepted setItemsPerPage or
\* setTotalItems leaves page = 1 and lastPage = 5.
C13_ResetRecorded ==
    /\ AcceptedSizingCall
    /\ BothPositive(call.pre)
    /\ totalPages(call.pre) = Num(10)
    /\ call.pre.page = Num(5)
    => page = Num(1) /\ lastPage = Num(5)

\* the pageChange notifications the last call delivered to an observer
CallNotes ==
    CASE call.op = "setPage" -> pageChangeNotes(call.pre, call.arg)
      [] call.op = "setTotalItems" -> setTotalItemsNotes(call.pre, call.arg)
      [] call.op = "setItemsPerPage" ->
             setItemsPerPageNotes(call.pre, call.arg)
      [] call.op = "setPageNested" ->
             IF pageChangeNotes(call.pre, call.arg) # <<>>
             THEN pageChangeNotes(call.pre, call.arg) \o
                  pageChangeNotes(setPage(call.pre, call.arg), call.inner)
             ELSE <<>>
      [] OTHER -> <<>>

\* C14: when an observer is notified of a page change, page is already the
\* notified new page and lastPage the notified previous page.
C14_NotifiedAfterMutation ==
    PreLive =>
        \A i \in DOMAIN CallNotes :
            /\ CallNotes[i].seen.page = CallNotes[i].newVal
            /\ CallNotes[i].seen.lastPage = CallNotes[i].prevVal

C14_Witness ==
    /\ PreLive
    /\ call.op = "setPage"
    /\ Len(CallNotes) = 1
    /\ CallNotes[1].prevVal.v > 1
    /\ CallNotes[1].seen.lastPage # call.pre.lastPage
    /\ page = CallNotes[1].newVal

\* C15: a rejected setPage (out of range, non-numeric or paging disabled)
\* notifies no observer and leaves every field as it was.
C15_RejectedSilent ==
    /\ call.op = "setPage"
    /\ PreLive
    /\ \/ Lt(call.arg, Num(1))
       \/ Gt(call.arg, totalPages(call.pre))
       \/ ~isNumber(call.arg)
       \/ ~PagingEnabled(call.pre)
    => CallNotes = <<>> /\ Cur = call.pre

\* the number m is in 1 .. totalPages of a model with paging enabled
InRange(s, m) ==
    /\ PagingEnabled(s)
    /\ isNumber(m)
    /\ 1 <= m.v /\ m.v <= totalPages(s).v

\* C16: a setPage(m) made by an observer inside the notification of an
\* accepted setPage(n) is validated against the updated state: accepted, it
\* leaves page = m and lastPage = n; rejected, it leaves page = n and
\* lastPage as the outer call set it.
C16_Reentrant ==
    /\ call.op = "setPageNested"
    /\ PreLive
    /\ InRange(call.pre, call.arg)
    /\ call.arg # call.pre.page
    => IF InRange(call.pre, call.inner)
       THEN page = call.inner /\ lastPage = call.arg
       ELSE page = call.arg /\ lastPage = call.pre.page

C16_Witness ==
    /\ call.op = "setPageNested"
    /\ PreLive
    /\ call.arg # call.pre.page
    /\ call.inner # call.arg
    /\ call.pre.lastPage # call.arg
    /\ page = call.inner
    /\ lastPage = call.arg

\* C17: construction leaves page = 1 and lastPage unset, with totalPages
\* computed when both sizing inputs are positive and unset otherwise.
C17_Construction ==
    call.op = "construct" =>
        /\ Live
        /\ page = Num(1)
        /\ lastPage = Null
        /\ IF BothPositive(Cur)
           THEN _npages = Num(Ceil(totalItems.v, itemsPerPage.v))
           ELSE _npages = Null

C17_Witness ==
    /\ call.op = "construct"
    /\ totalItems = Num(500) /\ itemsPerPage = Num(50)
    /\ _npages = Num(10)
    /\ page = Num(1)
    /\ lastPage = Null

\* C18: the destructor detaches every listener the model registered and
\* they stay detached; after it a sizing change recomputes no totalPages and
\* resets no page.
C18_Teardown ==
    /\ call.op = "destroy" => _subscr = {}
    /\ call.pre.subscr = {} => _subscr = {}
    /\ SizingCall /\ call.pre.subscr = {} =>
           /\ _npages = call.pre.npages
           /\ page = call.pre.page
           /\ lastPage = call.pre.lastPage

C18_Witness ==
    /\ SizingCall
    /\ call.pre.subscr = {}
    /\ Cur # call.pre
    /\ BothPositive(Cur)
    /\ page.v > 1
    /\ _npages # Num(Ceil(totalItems.v, itemsPerPage.v))

\* C19: setPage changes none of totalItems, itemsPerPage and totalPages, and
\* a sizing call changes page only by the reset to 1 made through the
\* validated page change, which records lastPage.
C19_OnlyPath ==
    /\ call.op = "setPage" =>
           /\ totalItems = call.pre.totalItems
           /\ itemsPerPage = call.pre.itemsPerPage
           /\ _npages = call.pre.npages
    /\ SizingCall /\ page # call.pre.page =>
           /\ page = Num(1)
           /\ lastPage = call.pre.page
           /\ validp(Cur, Num(1))

C19_Witness ==
    /\ SizingCall
    /\ call.pre.page.v > 1
    /\ call.pre.lastPage # call.pre.page
    /\ page = Num(1)
    /\ lastPage = call.pre.page

\* C20: with both sizing inputs positive every valid page has a non-empty
\* range, and for a non-exact division the last page holds totalItems mod
\* itemsPerPage = totalItems - (totalPages-1)*itemsPerPage items: 500 at 33
\* per page is 16 pages with 5 items on the last, 95 at 10 per page is 10
\* pages with itemIndexEnd = 95 on page 10.
C20_LastPage ==
    Live /\ BothPositive(Cur) =>
        /\ itemIndexStart.v < itemIndexEnd.v
        /\ totalItems.v % itemsPerPage.v > 0 /\ page = _npages =>
               /\ itemIndexEnd.v - itemIndexStart.v =
                      totalItems.v % itemsPerPage.v
               /\ itemIndexEnd.v - itemIndexStart.v =
                      totalItems.v - (_npages.v - 1) * itemsPerPage.v
        /\ totalItems = Num(500) /\ itemsPerPage = Num(33) =>
               /\ _npages = Num(16)
               /\ page = Num(16) => itemIndexEnd.v - itemIndexStart.v = 5
        /\ totalItems = Num(95) /\ itemsPerPage = Num(10) =>
               /\ _npages = Num(10)
               /\ page = Num(10) => itemIndexEnd = Num(95)

C20_Witness ==
    /\ Live
    /\ call.op = "setPage"
    /\ totalItems = Num(500) /\ itemsPerPage = Num(33)
    /\ page = Num(16)
    /\ itemIndexStart = Num(495) /\ itemIndexEnd = Num(500)

(* ------------------------------------------------------ claims on the view *)
\* the model and its derived-attribute slots now and before the last call
AttrsNow == Attrs(Cur, stored)

\* C21: the derived attributes totalPages, itemIndexStart and itemIndexEnd
\* cannot be overridden: after a direct set of any of them, a read of each
\* returns what it returned before the set, and with both sizing inputs
\* positive that is ceil(totalItems / itemsPerPage), (page - 1) *
\* itemsPerPage and min(itemIndexStart + itemsPerPage, totalItems).
C21_DerivedNotOverridable ==
    call.op \in Derived =>
        /\ \A name \in Derived :
              getDerived(AttrsNow, name) = getDerived(Attrs(call.pre, stored), name)
        /\ BothPositive(Cur) =>
              /\ getDerived(AttrsNow, "totalPages")
                    = Num(Ceil(totalItems.v, itemsPerPage.v))
              /\ getDerived(AttrsNow, "itemIndexStart")
                    = Num((page.v - 1) * itemsPerPage.v)
              /\ getDerived(AttrsNow, "itemIndexEnd")
                    = Num(Min((page.v - 1) * itemsPerPage.v + itemsPerPage.v,
                              totalItems.v))

\* set('totalPages', 7) on 500 items at 50 per page stored 7, and totalPages
\* still reads 10
C21_Witness ==
    /\ call.op = "totalPages"
    /\ call.arg = Num(7)
    /\ stored["totalPages"] = Num(7)
    /\ totalItems = Num(500)
    /\ itemsPerPage = Num(50)
    /\ getDerived(AttrsNow, "totalPages") = Num(10)

\* the last interaction was a click on the page control ctl
Clicked(ctl) == call.op = "click" /\ call.arg = Word(ctl)

\* the page control ctl carries the class 'disabled'
Disabled(ctl) == ctl \in view.disabled

\* C22: with circular = false, first and prev are disabled exactly when the
\* current page is 1 and next and last exactly when it is the last page, so
\* a click on next on the last page does not change the page; with circular
\* = true no control is disabled, next on the last page gives page 1 and
\* prev on page 1 gives the last page.
C22_EndControls ==
    view.built =>
        /\ ~view.circular =>
              /\ Disabled("first") <=> page = Num(1)
              /\ Disabled("prev") <=> page = Num(1)
              /\ Disabled("next") <=> page = totalPages(Cur)
              /\ Disabled("last") <=> page = totalPages(Cur)
              /\ Clicked("next") /\ call.pre.page = totalPages(call.pre)
                    => page = call.pre.page
        /\ view.circular =>
              /\ view.disabled = {}
              /\ PagingEnabled(call.pre) =>
                    /\ Clicked("next") /\ call.pre.page = totalPages(call.pre)
                          => page = Num(1)
                    /\ Clicked("prev") /\ call.pre.page = Num(1)
                          => page = totalPages(call.pre)

\* the list of page links is abbreviated: more pages than maxPageLinks
Abbreviated ==
    view.built /\ Gt(totalPages(Cur), Num(view.maxPageLinks))

\* the page numbers of the page links that are not hidden
Visible == (1 .. Len(view.links)) \ view.hidden

LaidOut ==
    \/ page # call.pre.page /\ Truthy(page) /\ call.preview.listens
    \/ view.renders # <<>>

\* the page link i that _processPageChange leaves as it is: the first link
\* under alwaysShowFirst, the link of the last page under alwaysShowLast
Kept(i) ==
    \/ i = 1 /\ view.alwaysShowFirst
    \/ i = totalPages(Cur).v /\ view.alwaysShowLast

Requested(pglink, s) ==
    IF pglink = Word("first") THEN Num(1)
    ELSE IF pglink = Word("last") THEN totalPages(s)
    ELSE IF pglink \in {Word("prev"), Word("next")} /\ s.page = Num(0)
         THEN Num(1)
    ELSE IF pglink = Word("prev")
         THEN IF s.page = Num(1) THEN totalPages(s) ELSE Num(s.page.v - 1)
    ELSE IF pglink = Word("next")
         THEN IF s.page = totalPages(s) THEN Num(1) ELSE Num(s.page.v + 1)
    ELSE Num(pglink.v)

\* the last interaction was a click on a control that was not disabled, with
\* paging enabled
EnabledClick ==
    /\ call.op = "click"
    /\ call.preview.built
    /\ ~hasDisabled(call.preview, call.arg)
    /\ PagingEnabled(call.pre)

\* C24 as stated: after a click on an enabled control with paging enabled
\* the model's page is the page asked for.
C24_Original ==
    EnabledClick => page = Requested(call.arg, call.pre)

\* C24: a click on an enabled control with paging enabled asks for page 1
\* (first), totalPages (last), page - 1 or totalPages from page 1 (prev),
\* page + 1 or 1 from the last page (next), or the link's own number; after
\* the click the model's page is the page asked for when that is a page in
\* 1 .. totalPages or the model had been destroyed (it validates no page
\* then), and otherwise the model is as before: the click was on a page
\* link numbered above totalPages, left in the container by a silent sizing
\* change. From page 0, which only a destroyed model takes, prev and next
\* ask for page 1.
C24_ClickSetsRequested ==
    EnabledClick =>
        LET asked == Requested(call.arg, call.pre)
        IN  IF InRange(call.pre, asked) \/ ~PreLive
            THEN page = asked
            ELSE /\ Cur = call.pre
                 /\ call.arg.t = "numstr"
                 /\ call.arg.v > totalPages(call.pre).v

\* circular view of 5 pages: next clicked on page 5 gave page 1
C24_Witness ==
    /\ EnabledClick
    /\ view.circular
    /\ call.arg = Word("next")
    /\ call.pre.page = Num(5)
    /\ totalPages(call.pre) = Num(5)
    /\ page = Num(1)
    /\ lastPage = Num(5)

\* the page count the sizing inputs of s call for: the ceiling of their
\* quotient when both are positive, else none
PagesFor(s) ==
    IF BothPositive(s) THEN Ceil(s.totalItems.v, s.itemsPerPage.v) ELSE 0

\* the last interaction changed totalItems or itemsPerPage: a set by the
\* program or a change of the rows-per-page control
SizingChanged ==
    /\ call.op \in {"setTotalItems", "setItemsPerPage", "selectRows"}
    /\ \/ totalItems # call.pre.totalItems
       \/ itemsPerPage # call.pre.itemsPerPage

\* C25: when totalItems or itemsPerPage of a model with a view changes, the
\* model recalculates before the view renders: every execution of render
\* finds totalPages at the value the new sizing inputs call for and page at
\* 1, and the number of page links in the container is that totalPages.
C25_RecalcBeforeRender ==
    SizingChanged /\ view.renders # <<>> =>
        /\ \A i \in 1 .. Len(view.renders) :
              LET seen == view.renders[i]
              IN  /\ seen.totalItems = totalItems
                  /\ seen.itemsPerPage = itemsPerPage
                  /\ totalPages(seen).v = PagesFor(seen)
                  /\ seen.page = Num(1)
        /\ Len(view.links) = PagesFor(Cur)

\* the model's attributes
modelVars == <<totalItems, itemsPerPage, page, lastPage, _npages, _subscr>>

\* C26: every user interaction (click, page input, rows-per-page change) ends
\* after finitely many model changes: the view's listeners of model events
\* (_modelPageChange, _modelStateChange, render, _processPageChange) never
\* set a model attribute, so each listener that runs leaves the model as it
\* is and leaves fewer listeners to run, and the listeners to run always run
\* out.
C26_NoFeedback ==
    /\ [][pending # <<>> =>
            /\ UNCHANGED modelVars
            /\ Len(pending') < Len(pending)]_vars
    /\ (pending # <<>>) ~> (pending = <<>>)

\* a rows-per-page change on page 3: the model changed itemsPerPage and
\* reset the page, the view handled the page change and rendered twice, and
\* no listener is left to run
C26_Witness ==
    /\ pending = <<>>
    /\ call.op = "selectRows"
    /\ call.pre.page = Num(3)
    /\ page = Num(1)
    /\ lastPage = Num(3)
    /\ itemsPerPage # call.pre.itemsPerPage
    /\ Len(view.renders) = 2
    /\ view.inputPage = Num(1)

\* render built the page links during the last interaction (or at
\* construction): it ran and found totalItems and itemsPerPage truthy
RenderBuilt ==
    /\ view.renders # <<>>
    /\ Truthy(totalItems)
    /\ Truthy(itemsPerPage)

\* the items link l stands for
ItemsOf(l) == l.pageStartIndex .. l.pageEndIndex

\* there are totalPages links, and link i carries pageStartIndex =
\* (i - 1) * itemsPerPage + 1 and pageEndIndex = min(i * itemsPerPage,
\* totalItems)
LinksAsComputed ==
    /\ Len(view.links) = totalPages(Cur).v
    /\ \A i \in 1 .. Len(view.links) :
          /\ view.links[i].page = i
          /\ view.links[i].pageStartIndex = (i - 1) * itemsPerPage.v + 1
          /\ view.links[i].pageEndIndex
                = Min(i * itemsPerPage.v, totalItems.v)

\* the ranges of the links are contiguous, disjoint and cover exactly
\* 1 .. totalItems
LinksPartition ==
    /\ \A i \in 1 .. Len(view.links) - 1 :
          view.links[i + 1].pageStartIndex = view.links[i].pageEndIndex + 1
    /\ \A i, j \in 1 .. Len(view.links) :
          i # j => ItemsOf(view.links[i]) \cap ItemsOf(view.links[j]) = {}
    /\ UNION {ItemsOf(view.links[i]) : i \in 1 .. Len(view.links)}
          = 1 .. totalItems.v

\* C27: render produces exactly totalPages page links, link i with
\* pageStartIndex = (i - 1) * itemsPerPage + 1 and pageEndIndex =
\* min(i * itemsPerPage, totalItems), and the ranges are contiguous,
\* disjoint and cover exactly 1 .. totalItems.
C27_LinkRanges == RenderBuilt => LinksAsComputed /\ LinksPartition

\* C28: in an abbreviated list with alwaysShowFirst and alwaysShowLast
\* false, the filler stands on the left exactly when a page link left of the
\* visible window is hidden and on the right exactly when one right of it is
\* hidden, for every current page and every linkListOffset >= 1.
C28_FillerIffHidden ==
    Abbreviated /\ ~view.alwaysShowFirst /\ ~view.alwaysShowLast =>
        /\ view.fillerLeft
              <=> \E h \in view.hidden : \A i \in Visible : h < i
        /\ view.fillerRight
              <=> \E h \in view.hidden : \A i \in Visible : h > i

\* the entry typed into the page input box is the numeral of a page in
\* 1 .. totalPages
EntryInRange(value, s) ==
    /\ value.t = "numstr"
    /\ 1 <= value.v
    /\ value.v <= totalPages(s).v

\* C29: with paging enabled, a page number typed into the input box is
\* applied as entered when it is in 1 .. totalPages, and any other entry
\* (not a number, zero, below 1, above totalPages) is replaced by 1: the
\* model's page afterwards is the entered value or 1.
C29_InputClamped ==
    call.op = "inputPage" /\ PagingEnabled(call.pre) =>
        IF EntryInRange(call.arg, call.pre)
        THEN page = Num(call.arg.v)
        ELSE page = Num(1)

\* "6" typed on page 3 of 5: the model goes to page 1 and the box shows 1
C29_Witness ==
    /\ call.op = "inputPage"
    /\ PagingEnabled(call.pre)
    /\ call.arg = NumStr(6)
    /\ call.pre.page = Num(3)
    /\ totalPages(call.pre) = Num(5)
    /\ page = Num(1)
    /\ view.inputPage = Num(1)

\* the last interaction chose the rows-per-page entry 'All' in some letter
\* case
ChoseAll ==
    /\ call.op = "selectRows"
    /\ call.arg \in {Word("All"), Word("ALL"), Word("all")}

\* C30 as stated: choosing 'All' rows per page, in any letter case, sets
\* itemsPerPage to totalItems; then for totalItems > 0, totalPages = 1,
\* page = 1, itemIndexStart = 0 and itemIndexEnd = totalItems.
C30_Original ==
    ChoseAll /\ Gt(totalItems, Num(0)) =>
        /\ itemsPerPage = totalItems
        /\ totalPages(Cur) = Num(1)
        /\ page = Num(1)
        /\ itemIndexStart = Num(0)
        /\ itemIndexEnd = totalItems

\* C30: choosing 'All' rows per page, in any letter case, sets itemsPerPage
\* to totalItems; then for totalItems > 0, and a model that had not been
\* destroyed, totalPages = 1, page = 1, itemIndexStart = 0 and
\* itemIndexEnd = totalItems. A destroyed model stores the new itemsPerPage
\* and recalculates nothing.
C30_AllRows ==
    ChoseAll /\ Gt(totalItems, Num(0)) =>
        /\ itemsPerPage = totalItems
        /\ PreLive =>
              /\ totalPages(Cur) = Num(1)
              /\ page = Num(1)
              /\ itemIndexStart = Num(0)
              /\ itemIndexEnd = totalItems

\* 'ALL' chosen on page 3 of 5 items at 1 per page: one page of 5 items
C30_Witness ==
    /\ ChoseAll
    /\ call.arg = Word("ALL")
    /\ call.pre.page = Num(3)
    /\ call.pre.itemsPerPage = Num(1)
    /\ totalItems = Num(5)
    /\ itemsPerPage = Num(5)
    /\ totalPages(Cur) = Num(1)
    /\ page = Num(1)
    /\ Len(view.links) = 1

\* the interactions of SpecLoop, once no listener is left to run, leave the
\* model and the view as the handlers of the container events leave them
BeforeCall ==
    World(call.pre, [call.preview EXCEPT !.threw = FALSE, !.renders = <<>>])

LoopAgrees ==
    pending = <<>> =>
        CASE call.op = "click" ->
                World(Cur, view) = _clickChangePage(BeforeCall, call.arg)
          [] call.op = "inputPage" ->
                World(Cur, view) = _inputChangePage(BeforeCall, call.arg)
          [] call.op = "selectRows" ->
                World(Cur, view) =
                    _selectChangeRowOptions(BeforeCall, call.arg)
          [] OTHER -> TRUE

====
